---- MODULE Spec2Model ----
(***************************************************************************)
(* Model of the interview session orchestrator (InterviewAgent): the       *)
(* session state machine, the tool operations with their await points,     *)
(* the entrypoint with its monitor loop, and the transport event handlers. *)
(* Time is counted in whole minutes.  The external collaborators           *)
(* (QuestionBank, ResponseEvaluator, FeedbackGenerator, InterviewService,  *)
(* the LiveKit session) are nondeterministic: each awaited call returns    *)
(* or raises, and other coroutines of the session run while it is pending. *)
(***************************************************************************)
EXTENDS Integers, Sequences, FiniteSets, TLC

\* ---------------------------------------------------------------- bounds
MaxResponses == 3      \* responses accepted in one run
MaxAsked == 6          \* question records appended in one run
MaxCompleted == 2      \* complete_session calls in one run

\* ------------------------------------------------------ program constants
MIN_QUESTION_FLOOR == 3        \* max(config min_questions, 3)
TIMEOUT_BUFFER == 5            \* minutes added to the duration by the monitor
INACTIVITY_MINUTES == 10       \* minutes without a response
BUFFER_NUM == 12               \* target_duration * 1.2 is 12/10 of the duration
BUFFER_DEN == 10

\* Optional[...] values: None, or a value
None == <<>>
Some(x) == <<x>>
Get(o) == o[1]

\* a coroutine that has no return value or awaited no service call yet
NoValue == "none"

\* InterviewState
INITIALIZING == "initializing"
GREETING == "greeting"
QUESTIONING == "questioning"
EVALUATING == "evaluating"
CONCLUDING == "concluding"
COMPLETED == "completed"
ERROR == "error"
InterviewState == {INITIALIZING, GREETING, QUESTIONING, EVALUATING, CONCLUDING, COMPLETED, ERROR}
Terminal == {COMPLETED, ERROR}

\* the clock readings (minutes since the worker started) the model draws from
TimePoints == {0, 36}

\* session configurations: interview_config of the room metadata and the size
\* of the question bank
Configs == {[min_questions |-> 3, max_questions |-> 5, duration |-> 30, total |-> 6]}

\* response texts: empty, whitespace only, a real answer
Texts == {"", " ", "answer"}

\* str.strip() on the modelled texts
Strip(text) == IF text = " " THEN "" ELSE text

\* the tool and message handler invocations that can be in flight at once
Slots == {1, 2}

\* a coroutine that has appended no response record
NoIndex == -1

IdleCall == [op |-> "idle", pc |-> "idle", ret |-> NoValue, store |-> NoValue, idx |-> NoIndex]

VARIABLES
    config,                  \* self.config and the question bank size
    state,                   \* progress.state
    questions_asked,         \* progress.questions_asked
    responses_received,      \* progress.responses_received
    current_question_index,  \* progress.current_question_index
    start_time,              \* progress.start_time
    last_activity,           \* progress.last_activity
    current_question,        \* self.current_question
    waiting_for_response,    \* self.waiting_for_response
    room_participants,       \* self.room_participants
    now,                     \* datetime.utcnow() in minutes
    pc,                      \* position of entrypoint / the monitor loop
    calls,                   \* the tool and message handler coroutines
    writes                   \* InterviewService status calls made so far

progress == <<state, questions_asked, responses_received, current_question_index,
              start_time, last_activity>>

vars == <<config, state, questions_asked, responses_received, current_question_index,
          start_time, last_activity, current_question, waiting_for_response,
          room_participants, now, pc, calls, writes>>

\* InterviewProgress() and InterviewAgent.__init__
Init ==
    /\ config \in Configs
    /\ state = INITIALIZING
    /\ questions_asked = <<>>
    /\ responses_received = <<>>
    /\ current_question_index = 0
    /\ start_time = None
    /\ last_activity = None
    /\ current_question = None
    /\ waiting_for_response = FALSE
    /\ room_participants = {}
    /\ now = 0
    /\ pc = "connect"
    /\ calls = [s \in Slots |-> IdleCall]
    /\ writes = [started |-> 0, completed |-> 0, incomplete |-> 0, error |-> 0]

Min(a, b) == IF a < b THEN a ELSE b
Max(a, b) == IF a > b THEN a ELSE b

\* _get_interview_duration: whole minutes since start_time, 0 without one
GetInterviewDuration(st, t) == IF st = None THEN 0 ELSE t - Get(st)

\* the policy with the maximum compared by > in place of >=
ShouldContinue_PastMax(asked, cfg, elapsed) ==
    LET max_questions == Min(cfg.max_questions, cfg.total)
        min_questions == Max(cfg.min_questions, MIN_QUESTION_FLOOR)
    IN  IF asked < min_questions THEN TRUE
        ELSE IF asked > max_questions THEN FALSE
        ELSE BUFFER_DEN * elapsed < BUFFER_NUM * cfg.duration

\* the policy without the floor of three questions
ShouldContinue_NoFloor(asked, cfg, elapsed) ==
    LET max_questions == Min(cfg.max_questions, cfg.total)
        min_questions == cfg.min_questions
    IN  IF asked < min_questions THEN TRUE
        ELSE IF asked >= max_questions THEN FALSE
        ELSE BUFFER_DEN * elapsed < BUFFER_NUM * cfg.duration

\* _should_continue_interview as a function of its inputs
ShouldContinue(asked, cfg, elapsed) ==
    LET max_questions == Min(cfg.max_questions, cfg.total)
        min_questions == Max(cfg.min_questions, MIN_QUESTION_FLOOR)
    IN  IF asked < min_questions THEN TRUE
        ELSE IF asked >= max_questions THEN FALSE
        ELSE BUFFER_DEN * elapsed < BUFFER_NUM * cfg.duration

\* _should_continue_interview on the session
ShouldContinueInterview ==
    ShouldContinue(Len(questions_asked), config, GetInterviewDuration(start_time, now))

\* a finished coroutine hands its result to its caller before the event loop
\* runs anything else
NoneReturning == \A s \in Slots : calls[s].pc # "done"

\* the room event handlers are registered after ctx.connect(), and the job is
\* torn down when the entrypoint raises
SessionAlive == pc \notin {"job", "returned", "connect", "raised"} /\ NoneReturning

\* the tools are the agent's from session.start on
ToolsAvailable == pc \notin {"job", "returned", "connect", "start", "raised"} /\ NoneReturning

\* a coroutine is created in the first free slot, after the running ones
FreeSlot(s) ==
    /\ calls[s].op = "idle"
    /\ \A r \in Slots : r < s => calls[r].op # "idle"

Pending(p) == Cardinality({s \in Slots : calls[s].pc = p})

Finish(s, r, st) == [calls EXCEPT ![s].pc = "done", ![s].ret = r, ![s].store = st]

\* the data message _send_data_message has sent last in a coroutine: the
\* question before the prompt is returned, the evaluation before the feedback
\* is returned, the final feedback before complete_session is awaited
SentMessage(c) ==
    CASE c.ret = "prompt" -> "question"
      [] c.ret = "feedback" -> "evaluation"
      [] c.pc = "c_complete" \/ c.ret = "conclusion" -> "final_feedback"
      [] OTHER -> NoValue

\* _update_interview_status: only "started" and "completed" reach the service
StatusWritten(status) == status \in {"started", "completed"}

UpdateInterviewStatus(w, status) ==
    IF StatusWritten(status) THEN [w EXCEPT ![status] = @ + 1] ELSE w

\* ------------------------------------------------------------ entrypoint

\* _handle_agent_error: _update_interview_status("error", ...)
HandleAgentError(w) == UpdateInterviewStatus(w, "error")

\* except Exception in entrypoint: state = ERROR, _handle_agent_error, raise;
\* the job ends and its pending coroutines are cancelled
EntryFail ==
    /\ state' = ERROR
    /\ writes' = HandleAgentError(writes)
    /\ pc' = "raised"
    /\ calls' = [s \in Slots |-> IdleCall]

\* await ctx.connect() returns or raises
Connect ==
    /\ pc = "connect"
    /\ NoneReturning
    /\ \E ok \in BOOLEAN :
        IF ok
        THEN /\ start_time' = Some(now)
             /\ state' = GREETING
             /\ pc' = "start"
             /\ UNCHANGED <<writes, calls>>
        ELSE /\ EntryFail
             /\ UNCHANGED start_time
    /\ UNCHANGED <<config, questions_asked, responses_received, current_question_index,
                   last_activity, current_question, waiting_for_response,
                   room_participants, now>>

\* await session.start(...) returns or raises
SessionStart ==
    /\ pc = "start"
    /\ NoneReturning
    /\ \E ok \in BOOLEAN :
        IF ok THEN pc' = "greet" /\ UNCHANGED <<state, writes, calls>> ELSE EntryFail
    /\ UNCHANGED <<config, questions_asked, responses_received, current_question_index,
                   start_time, last_activity, current_question, waiting_for_response,
                   room_participants, now>>

\* head of the monitor's while loop
MonitorHead == IF state \in Terminal THEN "done" ELSE "sleep"

\* await session.generate_reply(greeting) returns or raises; on return
\* _update_interview_status("started") calls start_session, whose failure is
\* logged, and the monitor loop is entered
Greet ==
    /\ pc = "greet"
    /\ NoneReturning
    /\ \E ok \in BOOLEAN :
        IF ok
        THEN /\ pc' = MonitorHead
             /\ writes' = UpdateInterviewStatus(writes, "started")
             /\ UNCHANGED <<state, calls>>
        ELSE EntryFail
    /\ UNCHANGED <<config, questions_asked, responses_received, current_question_index,
                   start_time, last_activity, current_question, waiting_for_response,
                   room_participants, now>>

\* the inactivity measured from the start while no response was accepted
MonitorCheck_FromStart ==
    IF now - Get(start_time) > config.duration + TIMEOUT_BUFFER THEN "timeout_reply"
    ELSE IF now - Get(IF last_activity = None THEN start_time ELSE last_activity)
                > INACTIVITY_MINUTES
         THEN "inactive_reply"
    ELSE MonitorHead

\* the inactivity check without its threshold: any earlier response triggers
MonitorCheck_AnyIdle ==
    IF now - Get(start_time) > config.duration + TIMEOUT_BUFFER THEN "timeout_reply"
    ELSE IF last_activity # None /\ now - Get(last_activity) > 0
         THEN "inactive_reply"
    ELSE MonitorHead

\* what the monitor does after asyncio.sleep(30)
MonitorCheck ==
    IF now - Get(start_time) > config.duration + TIMEOUT_BUFFER THEN "timeout_reply"
    ELSE IF last_activity # None /\ now - Get(last_activity) > INACTIVITY_MINUTES
         THEN "inactive_reply"
    ELSE MonitorHead

\* asyncio.sleep(30) returns in _monitor_interview_progress
MonitorWake ==
    /\ pc = "sleep"
    /\ NoneReturning
    /\ pc' = MonitorCheck
    /\ UNCHANGED <<config, state, questions_asked, responses_received,
                   current_question_index, start_time, last_activity, current_question,
                   waiting_for_response, room_participants, now, calls, writes>>

\* session.generate_reply of the monitor returns (break) or raises
MonitorReply ==
    /\ pc \in {"timeout_reply", "inactive_reply"}
    /\ NoneReturning
    /\ \E ok \in BOOLEAN :
        IF ok THEN pc' = "done" /\ UNCHANGED <<state, writes, calls>> ELSE EntryFail
    /\ UNCHANGED <<config, questions_asked, responses_received, current_question_index,
                   start_time, last_activity, current_question, waiting_for_response,
                   room_participants, now>>

\* the clock moves on to one of the readings in points
AdvanceTimeIn(points) ==
    /\ SessionAlive
    /\ \E t \in points : t > now /\ now' = t
    /\ UNCHANGED <<config, state, questions_asked, responses_received,
                   current_question_index, start_time, last_activity, current_question,
                   waiting_for_response, room_participants, pc, calls, writes>>

AdvanceTime == AdvanceTimeIn(TimePoints)

\* ------------------------------------------------- transport participants
Participants == {"candidate"}

\* on_participant_connected
ParticipantConnected ==
    /\ SessionAlive
    /\ \E p \in Participants : room_participants' = room_participants \cup {p}
    /\ UNCHANGED <<config, state, questions_asked, responses_received,
                   current_question_index, start_time, last_activity, current_question,
                   waiting_for_response, now, pc, calls, writes>>

\* _handle_early_exit: _update_interview_status("incomplete", ...)
HandleEarlyExit(w) == UpdateInterviewStatus(w, "incomplete")

\* on_participant_disconnected, with the task it creates when the room is empty
ParticipantDisconnected ==
    /\ SessionAlive
    /\ \E p \in Participants :
        /\ room_participants' = room_participants \ {p}
        /\ writes' = IF room_participants' = {} THEN HandleEarlyExit(writes) ELSE writes
    /\ UNCHANGED <<config, state, questions_asked, responses_received,
                   current_question_index, start_time, last_activity, current_question,
                   waiting_for_response, now, pc, calls>>

\* ------------------------------------------------------ _conclude_interview

\* first segment of _conclude_interview, run in coroutine s (the tool call, or
\* _ask_next_question returning its result): state = CONCLUDING, then
\* generate_final_feedback is awaited
ConcludeEnter(s) ==
    /\ writes.completed + Pending("c_final") < MaxCompleted
    /\ state' = CONCLUDING
    /\ calls' = [calls EXCEPT ![s] = [op |-> "conclude", pc |-> "c_final",
                                      ret |-> NoValue, store |-> NoValue, idx |-> NoIndex]]

\* the _conclude_interview tool is called
ConcludeStart(s) ==
    /\ ToolsAvailable
    /\ FreeSlot(s)
    /\ ConcludeEnter(s)
    /\ UNCHANGED <<config, questions_asked, responses_received, current_question_index,
                   start_time, last_activity, current_question, waiting_for_response,
                   room_participants, now, pc, writes>>

\* a failure of generate_final_feedback treated as fatal: the state becomes ERROR
FinalReturn_Fatal(s) ==
    /\ SessionAlive
    /\ calls[s].pc = "c_final"
    /\ \E ok \in BOOLEAN :
        IF ok
        THEN /\ writes' = UpdateInterviewStatus(writes, "completed")
             /\ calls' = [calls EXCEPT ![s].pc = "c_complete"]
             /\ UNCHANGED state
        ELSE /\ calls' = Finish(s, "conclude_fallback", NoValue)
             /\ state' = ERROR
             /\ UNCHANGED writes
    /\ UNCHANGED <<config, questions_asked, responses_received,
                   current_question_index, start_time, last_activity, current_question,
                   waiting_for_response, room_participants, now, pc>>

\* generate_final_feedback returns: final_feedback is sent and complete_session
\* awaited; or it raises: the fallback text is returned
FinalReturn(s) ==
    /\ SessionAlive
    /\ calls[s].pc = "c_final"
    /\ \E ok \in BOOLEAN :
        IF ok
        THEN /\ writes' = UpdateInterviewStatus(writes, "completed")
             /\ calls' = [calls EXCEPT ![s].pc = "c_complete"]
        ELSE /\ calls' = Finish(s, "conclude_fallback", NoValue)
             /\ UNCHANGED writes
    /\ UNCHANGED <<config, state, questions_asked, responses_received,
                   current_question_index, start_time, last_activity, current_question,
                   waiting_for_response, room_participants, now, pc>>

\* complete_session returns or raises (logged in _update_interview_status):
\* state = COMPLETED and the summary is returned
CompleteReturn(s) ==
    /\ SessionAlive
    /\ calls[s].pc = "c_complete"
    /\ state' = COMPLETED
    /\ \E st \in {"ok", "failed"} : calls' = Finish(s, "conclusion", st)
    /\ UNCHANGED <<config, questions_asked, responses_received, current_question_index,
                   start_time, last_activity, current_question, waiting_for_response,
                   room_participants, now, pc, writes>>

\* ------------------------------------------------------ _ask_next_question

\* the _ask_next_question tool is called: the policy is checked, then either
\* _conclude_interview is entered or get_next_question is awaited
AskStart(s) ==
    /\ ToolsAvailable
    /\ FreeSlot(s)
    /\ IF ~ShouldContinueInterview
       THEN ConcludeEnter(s)
       ELSE /\ Len(questions_asked) + Pending("a_next") < MaxAsked
            /\ calls' = [calls EXCEPT ![s] = [op |-> "ask", pc |-> "a_next",
                                              ret |-> NoValue, store |-> NoValue, idx |-> NoIndex]]
            /\ UNCHANGED state
    /\ UNCHANGED <<config, questions_asked, responses_received, current_question_index,
                   start_time, last_activity, current_question, waiting_for_response,
                   room_participants, now, pc, writes>>

\* the index left as it is, and the index advanced by two
NextIndex_Same(i) == i
NextIndex_Skip(i) == i + 2

\* current_question_index += 1
NextIndex(i) == i + 1

\* the record with a 1-based index
QuestionRecord_OneBased == [index |-> current_question_index + 1]

\* the question_record built from question_data
QuestionRecord == [index |-> current_question_index]

\* a failure of get_next_question that still enters QUESTIONING
AskNextReturn_FailMoves(s) ==
    /\ SessionAlive
    /\ calls[s].pc = "a_next"
    /\ \E r \in {"question", "none", "raise"} :
        CASE r = "question" ->
                /\ questions_asked' = Append(questions_asked, QuestionRecord)
                /\ current_question' = Some(QuestionRecord)
                /\ waiting_for_response' = TRUE
                /\ current_question_index' = NextIndex(current_question_index)
                /\ state' = QUESTIONING
                /\ \E st \in {"ok", "failed"} : calls' = Finish(s, "prompt", st)
          [] r = "none" ->
                /\ ConcludeEnter(s)
                /\ UNCHANGED <<questions_asked, current_question, waiting_for_response,
                               current_question_index>>
          [] r = "raise" ->
                /\ calls' = Finish(s, "filler", NoValue)
                /\ state' = QUESTIONING
                /\ UNCHANGED <<questions_asked, current_question, waiting_for_response,
                               current_question_index>>
    /\ UNCHANGED <<config, responses_received, start_time, last_activity,
                   room_participants, now, pc, writes>>

\* an empty answer of the question bank that still advances the index
AskNextReturn_NoneSkips(s) ==
    /\ SessionAlive
    /\ calls[s].pc = "a_next"
    /\ \E r \in {"question", "none", "raise"} :
        CASE r = "question" ->
                /\ questions_asked' = Append(questions_asked, QuestionRecord)
                /\ current_question' = Some(QuestionRecord)
                /\ waiting_for_response' = TRUE
                /\ current_question_index' = NextIndex(current_question_index)
                /\ state' = QUESTIONING
                /\ \E st \in {"ok", "failed"} : calls' = Finish(s, "prompt", st)
          [] r = "none" ->
                /\ ConcludeEnter(s)
                /\ current_question_index' = NextIndex(current_question_index)
                /\ UNCHANGED <<questions_asked, current_question, waiting_for_response>>
          [] r = "raise" ->
                /\ calls' = Finish(s, "filler", NoValue)
                /\ UNCHANGED <<questions_asked, current_question, waiting_for_response,
                               current_question_index, state>>
    /\ UNCHANGED <<config, responses_received, start_time, last_activity,
                   room_participants, now, pc, writes>>

\* get_next_question returns a question (it is tracked and sent, and
\* save_progress returns or raises, which _save_interview_progress logs, before
\* the prompt is returned), returns nothing (conclude), or raises (filler text)
AskNextReturn(s) ==
    /\ SessionAlive
    /\ calls[s].pc = "a_next"
    /\ \E r \in {"question", "none", "raise"} :
        CASE r = "question" ->
                /\ questions_asked' = Append(questions_asked, QuestionRecord)
                /\ current_question' = Some(QuestionRecord)
                /\ waiting_for_response' = TRUE
                /\ current_question_index' = NextIndex(current_question_index)
                /\ state' = QUESTIONING
                /\ \E st \in {"ok", "failed"} : calls' = Finish(s, "prompt", st)
          [] r = "none" ->
                /\ ConcludeEnter(s)
                /\ UNCHANGED <<questions_asked, current_question, waiting_for_response,
                               current_question_index>>
          [] r = "raise" ->
                /\ calls' = Finish(s, "filler", NoValue)
                /\ UNCHANGED <<questions_asked, current_question, waiting_for_response,
                               current_question_index, state>>
    /\ UNCHANGED <<config, responses_received, start_time, last_activity,
                   room_participants, now, pc, writes>>

\* ------------------------------------------------------ _evaluate_response

\* the guard without the waiting flag
MessageAccepted_NotWaiting(text) == text # ""

\* the guard of _handle_data_message on a response_submitted message
MessageAccepted(text) == text # "" /\ waiting_for_response

\* the early return of _evaluate_response
ResponseRejected(text) == current_question = None \/ Strip(text) = ""

\* the response_record built by _evaluate_response
ResponseRecord == [question_index |-> Get(current_question).index]

\* _evaluate_response is called, as a tool or by _handle_data_message: the
\* response is rejected, or recorded and evaluate_response awaited; idx is the
\* position (from 0) at which the call appended its record
EvaluateStart(s, text, via) ==
    /\ IF via = "tool" THEN ToolsAvailable ELSE SessionAlive
    /\ FreeSlot(s)
    /\ via = "message" => MessageAccepted(text)
    /\ IF ResponseRejected(text)
       THEN /\ calls' = [calls EXCEPT ![s] = [op |-> "evaluate", pc |-> "done",
                                              ret |-> "didnt_catch", store |-> NoValue, idx |-> NoIndex]]
            /\ UNCHANGED <<responses_received, last_activity, state,
                           waiting_for_response>>
       ELSE /\ Len(responses_received) < MaxResponses
            /\ responses_received' = Append(responses_received, ResponseRecord)
            /\ last_activity' = Some(now)
            /\ state' = EVALUATING
            /\ waiting_for_response' = FALSE
            /\ calls' = [calls EXCEPT ![s] = [op |-> "evaluate", pc |-> "e_eval",
                                              ret |-> NoValue, store |-> NoValue,
                                              idx |-> Len(responses_received)]]
    /\ UNCHANGED <<config, questions_asked, current_question_index, start_time,
                   current_question, room_participants, now, pc, writes>>

\* an evaluator failure treated as fatal: the state becomes ERROR
EvaluatorReturn_Fatal(s) ==
    /\ SessionAlive
    /\ calls[s].pc = "e_eval"
    /\ \E ok \in BOOLEAN :
        /\ calls' = IF ok THEN [calls EXCEPT ![s].pc = "e_feedback"]
                    ELSE Finish(s, "generic_ack", NoValue)
        /\ state' = IF ok THEN state ELSE ERROR
    /\ UNCHANGED <<config, questions_asked, responses_received,
                   current_question_index, start_time, last_activity, current_question,
                   waiting_for_response, room_participants, now, pc, writes>>

\* is_early_interview as passed to generate_response_feedback, computed when
\* evaluate_response has returned
IsEarlyInterview == Len(responses_received) <= 2

\* response_index of the evaluation message, computed when
\* generate_response_feedback has returned
EvaluationResponseIndex == Len(responses_received) - 1

\* evaluate_response returns (generate_response_feedback is awaited) or raises
EvaluatorReturn(s) ==
    /\ SessionAlive
    /\ calls[s].pc = "e_eval"
    /\ \E ok \in BOOLEAN :
        calls' = IF ok THEN [calls EXCEPT ![s].pc = "e_feedback"]
                 ELSE Finish(s, "generic_ack", NoValue)
    /\ UNCHANGED <<config, state, questions_asked, responses_received,
                   current_question_index, start_time, last_activity, current_question,
                   waiting_for_response, room_participants, now, pc, writes>>

\* generate_response_feedback returns (the evaluation is sent, save_progress
\* returns or raises, which is logged, and the feedback is returned) or raises
FeedbackReturn(s) ==
    /\ SessionAlive
    /\ calls[s].pc = "e_feedback"
    /\ \E r \in {"ok", "failed", "raise"} :
        calls' = IF r = "raise" THEN Finish(s, "generic_ack", NoValue)
                 ELSE Finish(s, "feedback", r)
    /\ UNCHANGED <<config, state, questions_asked, responses_received,
                   current_question_index, start_time, last_activity, current_question,
                   waiting_for_response, room_participants, now, pc, writes>>

\* ------------------------------------------- _provide_hint, _handle_clarification

\* a hint that counts as activity of the candidate
ProvideHint_Touch(s) ==
    /\ ToolsAvailable
    /\ FreeSlot(s)
    /\ calls' = [calls EXCEPT ![s] = [op |-> "hint", pc |-> "done",
                     ret |-> IF current_question = None THEN "no_hint" ELSE "hint",
                     store |-> NoValue, idx |-> NoIndex]]
    /\ last_activity' = Some(now)
    /\ UNCHANGED <<config, state, questions_asked, responses_received,
                   current_question_index, start_time, current_question,
                   waiting_for_response, room_participants, now, pc, writes>>

\* _provide_hint, as a tool or by _handle_data_message: no await, a text is returned
ProvideHint(s) ==
    /\ ToolsAvailable
    /\ FreeSlot(s)
    /\ calls' = [calls EXCEPT ![s] = [op |-> "hint", pc |-> "done",
                     ret |-> IF current_question = None THEN "no_hint" ELSE "hint",
                     store |-> NoValue, idx |-> NoIndex]]
    /\ UNCHANGED <<config, state, questions_asked, responses_received,
                   current_question_index, start_time, last_activity, current_question,
                   waiting_for_response, room_participants, now, pc, writes>>

\* _handle_clarification, as a tool or by _handle_data_message
HandleClarification(s) ==
    /\ ToolsAvailable
    /\ FreeSlot(s)
    /\ calls' = [calls EXCEPT ![s] = [op |-> "clarify", pc |-> "done",
                     ret |-> IF current_question = None THEN "what_to_clarify"
                             ELSE "clarification",
                     store |-> NoValue, idx |-> NoIndex]]
    /\ UNCHANGED <<config, state, questions_asked, responses_received,
                   current_question_index, start_time, last_activity, current_question,
                   waiting_for_response, room_participants, now, pc, writes>>

\* the caller takes the returned text; the coroutine is gone, and the running
\* ones stay listed in the order they were started
Return(s) ==
    /\ calls[s].pc = "done"
    /\ calls' = [t \in Slots |-> IF t < s THEN calls[t]
                                 ELSE IF t + 1 \in Slots THEN calls[t + 1]
                                 ELSE IdleCall]
    /\ UNCHANGED <<config, state, questions_asked, responses_received,
                   current_question_index, start_time, last_activity, current_question,
                   waiting_for_response, room_participants, now, pc, writes>>

\* the operations of the session: entrypoint and monitor, clock, tools and
\* data messages
Next ==
    \/ Connect
    \/ SessionStart
    \/ Greet
    \/ MonitorWake
    \/ MonitorReply
    \/ AdvanceTime
    \/ \E s \in Slots : ConcludeStart(s)
    \/ \E s \in Slots : FinalReturn(s)
    \/ \E s \in Slots : CompleteReturn(s)
    \/ \E s \in Slots : AskStart(s)
    \/ \E s \in Slots : AskNextReturn(s)
    \/ \E s \in Slots, text \in Texts, via \in {"tool", "message"} : EvaluateStart(s, text, via)
    \/ \E s \in Slots : EvaluatorReturn(s)
    \/ \E s \in Slots : FeedbackReturn(s)
    \/ \E s \in Slots : ProvideHint(s)
    \/ \E s \in Slots : HandleClarification(s)
    \/ \E s \in Slots : Return(s)

Spec == Init /\ [][Next]_vars

\* the same with the participants of the room joining and leaving
RoomNext ==
    \/ Next
    \/ ParticipantConnected
    \/ ParticipantDisconnected

SpecRoom == Init /\ [][RoomNext]_vars

\* ------------------------------------------------ the continuation policy
MaxPolicyQ == 5        \* question counts of the drawn configurations
MaxElapsed == 40       \* elapsed minutes the policy is compared on

PolicyDurations == {0, 5, 30}

PolicyConfigs ==
    [min_questions : 0..MaxPolicyQ, max_questions : 0..MaxPolicyQ,
     duration : PolicyDurations, total : 0..MaxPolicyQ]

\* the records of n questions asked in turn
AskedPrefix(n) == [i \in 1..n |-> [index |-> i - 1]]

\* a greeted session with any configuration and any number of questions asked
PolicyInit ==
    /\ config \in PolicyConfigs
    /\ \E n \in 0..MaxAsked :
        /\ questions_asked = AskedPrefix(n)
        /\ current_question_index = n
        /\ current_question = IF n = 0 THEN None ELSE Some([index |-> n - 1])
        /\ waiting_for_response = (n > 0)
        /\ state = IF n = 0 THEN GREETING ELSE QUESTIONING
    /\ responses_received = <<>>
    /\ start_time = Some(0)
    /\ last_activity = None
    /\ room_participants = {}
    /\ now = 0
    /\ pc = "sleep"
    /\ calls = [s \in Slots |-> IdleCall]
    /\ writes = [started |-> 1, completed |-> 0, incomplete |-> 0, error |-> 0]

\* the policy is applied by _ask_next_question, at any time
PolicyNext ==
    \/ \E s \in Slots : AskStart(s)
    \/ AdvanceTime

PolicySpec == PolicyInit /\ [][PolicyNext]_vars

\* ------------------------------------------------ the monitor and responses
\* clock readings around the inactivity threshold and past the time limit
MonitorTimePoints == {0, 10, 21, 36}

\* a started session with one or two questions asked and the monitor asleep
MonitorInit ==
    /\ config \in Configs
    /\ \E n \in 1..2 :
        /\ questions_asked = AskedPrefix(n)
        /\ current_question_index = n
        /\ current_question = Some([index |-> n - 1])
    /\ waiting_for_response = TRUE
    /\ state = QUESTIONING
    /\ responses_received = <<>>
    /\ start_time = Some(0)
    /\ last_activity = None
    /\ room_participants = {}
    /\ now = 0
    /\ pc = "sleep"
    /\ calls = [s \in Slots |-> IdleCall]
    /\ writes = [started |-> 1, completed |-> 0, incomplete |-> 0, error |-> 0]

\* the monitor ticks while responses are submitted and evaluated
MonitorNext ==
    \/ MonitorWake
    \/ MonitorReply
    \/ AdvanceTimeIn(MonitorTimePoints)
    \/ \E s \in Slots, text \in Texts, via \in {"tool", "message"} : EvaluateStart(s, text, via)
    \/ \E s \in Slots : EvaluatorReturn(s)
    \/ \E s \in Slots : FeedbackReturn(s)
    \/ \E s \in Slots : Return(s)

MonitorSpec == MonitorInit /\ [][MonitorNext]_vars

\* ------------------------------------------------ interview_agent_entrypoint
\* room metadata of a job: absent, the empty string, text that is not JSON, JSON
\* that is not an object, or a JSON object; and in an object the session_id:
\* absent or null, the empty string, or an identifier
MetadataKinds == {"none", "empty", "invalid_json", "not_object", "object"}
SessionIds == {None, Some(""), Some("s1")}
Payloads == [metadata : MetadataKinds, session_id : SessionIds]

\* the entry point with an empty session_id taken for an identifier
JobOutcome_EmptyId(p) ==
    IF p.metadata \in {"none", "empty"} THEN "return"
    ELSE IF p.metadata = "invalid_json" THEN "return"
    ELSE IF p.metadata = "not_object" THEN "raise"
    ELSE IF p.session_id = None THEN "return"
    ELSE "start"

\* what interview_agent_entrypoint does with the room metadata: it returns
\* early, raises (session_config.get on a value that is no dict), or
\* constructs the InterviewAgent and runs its entrypoint
JobOutcome(p) ==
    IF p.metadata \in {"none", "empty"} THEN "return"
    ELSE IF p.metadata = "invalid_json" THEN "return"
    ELSE IF p.metadata = "not_object" THEN "raise"
    ELSE IF p.session_id = None \/ Get(p.session_id) = "" THEN "return"
    ELSE "start"

\* interview_agent_entrypoint is called by the worker with the job's room
InterviewAgentEntrypoint(p) ==
    /\ pc = "job"
    /\ pc' = CASE JobOutcome(p) = "start" -> "connect"
                [] JobOutcome(p) = "return" -> "returned"
                [] OTHER -> "raised"
    /\ UNCHANGED <<config, state, questions_asked, responses_received,
                   current_question_index, start_time, last_activity, current_question,
                   waiting_for_response, room_participants, now, calls, writes>>

\* a job is dispatched: no InterviewAgent exists yet; its fields are shown with
\* the values __init__ gives them and nothing reads them before entrypoint runs
WorkerInit ==
    /\ config \in Configs
    /\ state = INITIALIZING
    /\ questions_asked = <<>>
    /\ responses_received = <<>>
    /\ current_question_index = 0
    /\ start_time = None
    /\ last_activity = None
    /\ current_question = None
    /\ waiting_for_response = FALSE
    /\ room_participants = {}
    /\ now = 0
    /\ pc = "job"
    /\ calls = [s \in Slots |-> IdleCall]
    /\ writes = [started |-> 0, completed |-> 0, incomplete |-> 0, error |-> 0]

WorkerNext ==
    \/ \E p \in Payloads : InterviewAgentEntrypoint(p)
    \/ Next

WorkerSpec == WorkerInit /\ [][WorkerNext]_vars

\* ------------------------------------------------ _ask_next_question alone
\* a greeted session whose agent calls no tool but _ask_next_question
AskInit ==
    /\ config \in Configs
    /\ state = GREETING
    /\ questions_asked = <<>>
    /\ responses_received = <<>>
    /\ current_question_index = 0
    /\ start_time = Some(0)
    /\ last_activity = None
    /\ current_question = None
    /\ waiting_for_response = FALSE
    /\ room_participants = {}
    /\ now = 0
    /\ pc = "sleep"
    /\ calls = [s \in Slots |-> IdleCall]
    /\ writes = [started |-> 1, completed |-> 0, incomplete |-> 0, error |-> 0]

\* _ask_next_question with the conclusion it may run into, and the clock
AskNext ==
    \/ \E s \in Slots : AskStart(s)
    \/ \E s \in Slots : AskNextReturn(s)
    \/ \E s \in Slots : FinalReturn(s)
    \/ \E s \in Slots : CompleteReturn(s)
    \/ \E s \in Slots : Return(s)
    \/ AdvanceTime

AskSpec == AskInit /\ [][AskNext]_vars

\* ------------------------------------------------ _handle_data_message
\* message.get('type') of an inbound data message: the three handled types, a
\* type the agent does not know, and a message without a type
MessageTypes == {"response_submitted", "request_hint", "request_clarification",
                 "ping", NoValue}
Messages == [type : MessageTypes, text : Texts]

\* the dispatch with every unhandled type answered like a hint request
MessageHandler_DefaultHint(type) ==
    IF type = "response_submitted" THEN "evaluate"
    ELSE IF type = "request_clarification" THEN "clarify"
    ELSE "hint"

\* the if / elif chain of _handle_data_message
MessageHandler(type) ==
    IF type = "response_submitted" THEN "evaluate"
    ELSE IF type = "request_hint" THEN "hint"
    ELSE IF type = "request_clarification" THEN "clarify"
    ELSE "ignore"

\* on_data_received with _handle_data_message, run in coroutine s
HandleDataMessage(s, m) ==
    /\ SessionAlive
    /\ CASE MessageHandler(m.type) = "evaluate" -> EvaluateStart(s, m.text, "message")
         [] MessageHandler(m.type) = "hint" -> ProvideHint(s)
         [] MessageHandler(m.type) = "clarify" -> HandleClarification(s)
         [] OTHER -> UNCHANGED vars

\* the message types the client's handleAIMessage renders
RenderedTypes == {"question", "evaluation", "final_feedback", "hint"}

\* the data messages of the room, with the agent asking questions
TransportNext ==
    \/ \E s \in Slots, m \in Messages : HandleDataMessage(s, m)
    \/ \E s \in Slots : EvaluatorReturn(s)
    \/ \E s \in Slots : FeedbackReturn(s)
    \/ AskNext

TransportSpec == AskInit /\ [][TransportNext]_vars

\* ------------------------------------------------------------- properties

\* C1: in every reachable state the number of question records equals
\* current_question_index
QuestionsMatchIndex == Len(questions_asked) = current_question_index

\* two questions asked, one answered, a further ask in flight
QuestionsMatchIndexWitness ==
    /\ Len(questions_asked) = 2
    /\ Len(responses_received) = 1
    /\ Pending("a_next") = 1

\* C2: in every reachable state the number of responses is the number of
\* questions or one less (at most one question outstanding)
OneOutstanding ==
    Len(responses_received) \in {Len(questions_asked) - 1, Len(questions_asked)}

\* C3: once the state is COMPLETED or ERROR no step changes a field of the progress
TerminalIsFrozen == [][(state \in Terminal) => (progress' = progress)]_vars

\* the transitions of the state graph
Edges ==
    {<<INITIALIZING, GREETING>>, <<GREETING, QUESTIONING>>, <<QUESTIONING, EVALUATING>>,
     <<EVALUATING, QUESTIONING>>, <<QUESTIONING, CONCLUDING>>, <<EVALUATING, CONCLUDING>>,
     <<CONCLUDING, COMPLETED>>}
        \cup {<<a, ERROR>> : a \in InterviewState \ Terminal}

\* C4: every change of the state is an edge of the state graph
TransitionsFollowGraph == [][(state' # state) => (<<state, state'>> \in Edges)]_vars

\* C5: a response submitted when the state is not QUESTIONING, or with empty or
\* whitespace-only text, changes nothing of the progress and gets the "didn't
\* catch that" result
RejectedResponseIsNoOp ==
    [][\A s \in Slots, text \in Texts, via \in {"tool", "message"} :
        (EvaluateStart(s, text, via) /\ (state # QUESTIONING \/ Strip(text) = ""))
            => /\ responses_received' = responses_received
               /\ state' = state
               /\ last_activity' = last_activity
               /\ calls'[s].ret = "didnt_catch"]_vars

\* C6: however often the interview is concluded, the final feedback is
\* generated once and one completed status is written
ConcludeIsIdempotent == writes.completed <= 1

\* the policy as the claim states it
ReferencePolicy(asked, min_questions, max_questions, total, elapsed, duration) ==
    LET min_q == IF min_questions > 3 THEN min_questions ELSE 3
        max_q == IF max_questions < total THEN max_questions ELSE total
    IN  CASE asked < min_q -> TRUE
          [] asked >= min_q /\ asked >= max_q -> FALSE
          [] OTHER -> 5 * elapsed < 6 * duration

\* C7: the continuation policy equals the reference on all bounded inputs; with
\* min_questions 3 and max_questions 5 it continues for 0, 1, 2 questions asked
\* at any elapsed time and stops at 5
PolicyMatchesReference ==
    /\ \A asked \in 0..MaxAsked, elapsed \in 0..MaxElapsed :
        ShouldContinue(asked, config, elapsed)
            = ReferencePolicy(asked, config.min_questions, config.max_questions,
                              config.total, elapsed, config.duration)
    /\ (config.min_questions = 3 /\ config.max_questions = 5) =>
        \A elapsed \in 0..MaxElapsed :
            /\ \A asked \in {0, 1, 2} : ShouldContinue(asked, config, elapsed)
            /\ ~ShouldContinue(5, config, elapsed)

\* over time and at the maximum, an ask below the floor of three still continues
PolicyMatchesReferenceWitness ==
    /\ config.max_questions = 0
    /\ config.duration = 30
    /\ now = 36
    /\ Len(questions_asked) = 2
    /\ Pending("a_next") = 1

\* the configuration of scenario A
ScenarioA == [min_questions |-> 3, max_questions |-> 5, duration |-> 30, total |-> 6]

\* C8: an ask made when the policy says stop concludes instead: no record is
\* appended, the index stays and get_next_question is not called; with min 3,
\* max 5, duration 30 the ask after five questions concludes with five asked
StopConcludesInsteadOfAsking ==
    [][\A s \in Slots :
        /\ (AskStart(s) /\ ~ShouldContinueInterview) =>
                /\ questions_asked' = questions_asked
                /\ current_question_index' = current_question_index
                /\ calls'[s].pc = "c_final"
                /\ Pending("a_next")' = Pending("a_next")
                /\ state' = CONCLUDING
        /\ (AskStart(s) /\ config = ScenarioA /\ Len(questions_asked) = 5) =>
                /\ state' = CONCLUDING
                /\ Len(questions_asked') = 5
                /\ calls'[s].pc = "c_final"]_vars

\* five questions asked under scenario A, responses given, and the conclusion
\* under way
StopConcludesWitness ==
    /\ config = ScenarioA
    /\ Len(questions_asked) = 5
    /\ Len(responses_received) = 3
    /\ state = CONCLUDING
    /\ Pending("c_final") = 1
    /\ Pending("a_next") = 0

\* C9: current_question_index never decreases; it grows by one in the step of
\* _ask_next_question that appends a record and is unchanged in every other step
IndexStepsByOne ==
    [][IF questions_asked' # questions_asked
       THEN /\ current_question_index' = current_question_index + 1
            /\ \E s \in Slots : calls[s].pc = "a_next" /\ calls'[s].ret = "prompt"
       ELSE current_question_index' = current_question_index]_vars

\* two questions asked, then an ask that failed and one that concluded
IndexStepsByOneWitness ==
    /\ current_question_index = 2
    /\ calls[1].pc = "c_final"
    /\ calls[2].ret = "filler"

\* C10: when save_progress raises in _ask_next_question the state is ERROR, one
\* error status is written and the call raises
SaveFailureIsFatal ==
    \A s \in Slots :
        (calls[s].op = "ask" /\ calls[s].pc = "done" /\ calls[s].store = "failed")
            => /\ state = ERROR
               /\ writes.error = 1
               /\ calls[s].ret = "raised"

\* C11: an accepted response is appended, last_activity set to the clock and
\* the state set to EVALUATING before the evaluator runs; when evaluate_response
\* or generate_response_feedback then raises, the generic acknowledgement is
\* returned, the record and last_activity stay, the state is not changed (never
\* ERROR) and no status is written; the next ask follows the policy and a
\* question returned to it sets QUESTIONING
EvaluationFailureKeepsResponse ==
    [][\A s \in Slots :
        /\ (calls[s].op = "idle" /\ calls'[s].pc = "e_eval") =>
                /\ responses_received' = Append(responses_received, ResponseRecord)
                /\ last_activity' = Some(now)
                /\ state' = EVALUATING
        /\ (calls[s].pc \in {"e_eval", "e_feedback"} /\ calls'[s].ret = "generic_ack") =>
                /\ responses_received' = responses_received
                /\ responses_received # <<>>
                /\ last_activity' = last_activity
                /\ last_activity # None
                /\ state' = state
                /\ state' # ERROR
                /\ writes' = writes
        /\ (state = EVALUATING /\ calls[s].op = "idle" /\ calls'[s].op = "ask") =>
                /\ ShouldContinueInterview
                /\ calls'[s].pc = "a_next"
        /\ (calls[s].pc = "a_next" /\ calls'[s].ret = "prompt") => state' = QUESTIONING]_vars

\* the evaluator has failed on the second response: the generic
\* acknowledgement is about to be returned in state EVALUATING
EvaluationFailureWitness ==
    /\ Len(responses_received) = 2
    /\ Len(questions_asked) = 2
    /\ state = EVALUATING
    /\ \E s \in Slots : calls[s].op = "evaluate" /\ calls[s].ret = "generic_ack"
    /\ writes.error = 0

\* C12: when the last participant leaves the room an incomplete status is
\* written to the interview service
EarlyExitPersistsIncomplete ==
    [][(room_participants # {} /\ room_participants' = {})
            => writes'.incomplete = writes.incomplete + 1]_vars

\* C13: when get_next_question raises, the filler prompt is returned and the
\* state, the question records, the index, the current question and the waiting
\* flag are as before; save_progress is not called, no status is written and
\* no question message is sent
QuestionSourceFailureIsLocal ==
    [][\A s \in Slots :
        (calls[s].pc = "a_next" /\ calls'[s].ret = "filler") =>
            /\ state' = state
            /\ questions_asked' = questions_asked
            /\ current_question_index' = current_question_index
            /\ current_question' = current_question
            /\ waiting_for_response' = waiting_for_response
            /\ writes' = writes
            /\ calls'[s].store = NoValue
            /\ SentMessage(calls'[s]) = NoValue]_vars

\* the second ask has failed while the first question waits for its response
QuestionSourceFailureWitness ==
    /\ state = QUESTIONING
    /\ Len(questions_asked) = 1
    /\ waiting_for_response
    /\ \E s \in Slots : calls[s].op = "ask" /\ calls[s].ret = "filler"

\* C14: a tick of the monitor issues the inactivity request only if a response
\* was accepted before and more than ten minutes have passed since the last
\* one; every accepted response sets last_activity to the clock, and nothing
\* else changes it
InactivityOnlyAfterThreshold ==
    [][/\ (pc = "sleep" /\ pc' = "inactive_reply") =>
            /\ last_activity # None
            /\ now - Get(last_activity) > INACTIVITY_MINUTES
       /\ (pc' = "inactive_reply") => (pc \in {"sleep", "inactive_reply"})
       /\ (\E s \in Slots : calls[s].op = "idle" /\ calls'[s].pc = "e_eval") =>
            last_activity' = Some(now)
       /\ (last_activity' # last_activity) =>
            \E s \in Slots : calls[s].op = "idle" /\ calls'[s].pc = "e_eval"]_vars

\* a response at minute 0 and one at minute 10, which reset the clock: the
\* inactivity request is issued by the tick at minute 21
InactivityWitness ==
    /\ pc = "inactive_reply"
    /\ Len(responses_received) = 2
    /\ last_activity = Some(10)
    /\ now = 21

\* C15: when the monitor's time-limit request has been made and the monitor
\* stops, the conclusion has been entered: the state is CONCLUDING or COMPLETED
MonitorTimeoutConcludes ==
    [][(pc = "timeout_reply" /\ pc' = "done") => (state' \in {CONCLUDING, COMPLETED})]_vars

\* C16: a monitor that wakes in state COMPLETED or ERROR leaves its loop
\* without a time-limit or an inactivity request
MonitorStopsWhenTerminal ==
    [][(pc = "sleep" /\ state \in Terminal) => (pc' \notin {"timeout_reply", "inactive_reply"})]_vars

\* C17: in state COMPLETED a complete_session call of the session has succeeded
CompletedMeansPersisted ==
    (state = COMPLETED /\ writes.completed = 1) =>
        \A s \in Slots : (calls[s].ret = "conclusion") => (calls[s].store = "ok")

\* C18: a hint or a clarification, with or without a current question, changes
\* no field of the progress, nor the current question, the waiting flag or the
\* status writes, and calls no save; last_activity changes only in the step of
\* _evaluate_response that accepts a response
HintAndClarificationArePure ==
    [][/\ \A s \in Slots :
            (calls[s].op = "idle" /\ calls'[s].op \in {"hint", "clarify"}) =>
                /\ progress' = progress
                /\ current_question' = current_question
                /\ waiting_for_response' = waiting_for_response
                /\ writes' = writes
                /\ calls'[s].store = NoValue
                /\ calls'[s].pc = "done"
       /\ (last_activity' # last_activity) =>
            \E s \in Slots : /\ calls[s].op = "idle"
                             /\ calls'[s].op = "evaluate"
                             /\ calls'[s].pc = "e_eval"]_vars

\* a hint given while a response accepted at minute 0 is being evaluated at
\* minute 36
HintAndClarificationWitness ==
    /\ state = EVALUATING
    /\ last_activity = Some(0)
    /\ now = 36
    /\ \E s \in Slots : calls[s].ret = "hint"
    /\ Pending("e_eval") = 1

\* C19: every session in state ERROR has one error status written
ErrorIsPersisted == (state = ERROR) => (writes.error = 1)

\* the texts returned when a collaborator has failed
FallbackTexts == {"filler", "generic_ack", "conclude_fallback"}

\* C20: when get_next_question, evaluate_response, generate_response_feedback
\* or generate_final_feedback raises, the operation returns its fallback text
\* in that step, the state is not changed by it, no status is written, the
\* entrypoint is not disturbed, and ERROR is not entered
CollaboratorFailureIsLocal ==
    [][\A s \in Slots :
        (calls[s].pc \in {"a_next", "e_eval", "e_feedback", "c_final"}
            /\ calls'[s].ret \in FallbackTexts) =>
                /\ calls'[s].pc = "done"
                /\ calls'[s].ret = CASE calls[s].pc = "a_next" -> "filler"
                                      [] calls[s].pc = "c_final" -> "conclude_fallback"
                                      [] OTHER -> "generic_ack"
                /\ state' = state
                /\ state' # ERROR
                /\ writes' = writes
                /\ pc' = pc]_vars

\* generate_final_feedback has failed: the fallback farewell is about to be
\* returned in state CONCLUDING, with no status written for the conclusion
CollaboratorFailureWitness ==
    /\ state = CONCLUDING
    /\ writes.completed = 0
    /\ writes.error = 0
    /\ \E s \in Slots : calls[s].op = "conclude" /\ calls[s].ret = "conclude_fallback"

\* C21: when the last participant leaves the room in state QUESTIONING or
\* EVALUATING the state becomes CONCLUDING
EarlyExitConcludes ==
    [][(room_participants # {} /\ room_participants' = {}
            /\ state \in {QUESTIONING, EVALUATING}) => (state' = CONCLUDING)]_vars

\* a payload without a session identifier, or with missing or unparsable metadata
NoSessionPayload(p) ==
    \/ p.metadata # "object"
    \/ p.session_id = None
    \/ p.session_id = Some("")

\* C22: a job whose room metadata is missing, is not JSON or carries no
\* session_id ends in the entry point: no agent runs, ctx.connect() is not
\* called, no status is written and no field is assigned, then or later
NoSessionNeverStarts ==
    [][/\ \A p \in Payloads :
            (InterviewAgentEntrypoint(p) /\ NoSessionPayload(p)) =>
                /\ pc' \in {"returned", "raised"}
                /\ writes' = writes
                /\ progress' = progress
                /\ calls' = calls
       /\ (pc \in {"job", "returned"}) =>
            /\ state' = INITIALIZING
            /\ start_time' = None
            /\ writes' = writes
            /\ calls' = calls
            /\ room_participants' = room_participants
            /\ (pc = "returned") => (pc' = "returned")]_vars

\* a job without a usable session_id has returned from the entry point
NoSessionWitness ==
    /\ pc = "returned"
    /\ state = INITIALIZING
    /\ start_time = None
    /\ writes = [started |-> 0, completed |-> 0, incomplete |-> 0, error |-> 0]

\* C23: when the policy says continue and get_next_question returns no
\* question, _ask_next_question enters _conclude_interview: no record is
\* appended, the index stays and the state is CONCLUDING; when the final
\* feedback is generated the completed status is written and the state
\* becomes COMPLETED
NoQuestionConcludes ==
    [][\A s \in Slots :
        /\ (calls[s].pc = "a_next" /\ calls'[s].pc = "c_final") =>
                /\ questions_asked' = questions_asked
                /\ current_question_index' = current_question_index
                /\ current_question' = current_question
                /\ state' = CONCLUDING
        /\ (calls[s].pc = "c_final" /\ calls'[s].pc = "c_complete") =>
                /\ writes'.completed = writes.completed + 1
                /\ questions_asked' = questions_asked
        /\ (calls[s].pc = "c_complete" /\ calls'[s].pc = "done") =>
                /\ state' = COMPLETED
                /\ calls'[s].ret = "conclusion"
                /\ questions_asked' = questions_asked
                /\ current_question_index' = current_question_index]_vars

\* after one question the policy still says continue (fewer than three asked),
\* the question bank returned nothing, and the conclusion has run to COMPLETED
NoQuestionConcludesWitness ==
    /\ Len(questions_asked) = 1
    /\ current_question_index = 1
    /\ ShouldContinueInterview
    /\ state = COMPLETED
    /\ writes.completed = 1
    /\ \E s \in Slots : calls[s].ret = "conclusion"

\* the message types _handle_data_message handles
KnownTypes == {"response_submitted", "request_hint", "request_clarification"}

\* C24: a data message of any other type, or without a type, changes no
\* variable of the session: the progress, the current question and the waiting
\* flag stay, no coroutine of a tool is started, no status is written
UnknownMessageIsIgnored ==
    [][\A s \in Slots, m \in {u \in Messages : u.type \notin KnownTypes} :
        HandleDataMessage(s, m) =>
            /\ progress' = progress
            /\ current_question' = current_question
            /\ waiting_for_response' = waiting_for_response
            /\ calls' = calls
            /\ writes' = writes]_vars

\* a session waiting for the response to its question, where a message of an
\* unknown type is handled
UnknownMessageWitness ==
    /\ state = QUESTIONING
    /\ waiting_for_response
    /\ Len(questions_asked) = 2
    /\ Len(responses_received) = 1
    /\ ENABLED (\E s \in Slots : HandleDataMessage(s, [type |-> "ping", text |-> "answer"]))

\* C25: the number of questions asked never exceeds the larger of the
\* effective minimum and the effective maximum of the policy
AskedWithinMaximum ==
    Len(questions_asked) <= Max(Max(config.min_questions, MIN_QUESTION_FLOOR),
                                Min(config.max_questions, config.total))

\* the records of q carry their 0-based positions as index
IndexedByPosition(q) == \A i \in 1..Len(q) : q[i].index = i - 1

\* C26: under overlapping _ask_next_question calls questions_asked only grows,
\* one record at a time at its end, and the record at position i (counted
\* from 0) carries index i: no gaps, no duplicates
QuestionsAppendOnly ==
    [][/\ \/ questions_asked' = questions_asked
          \/ /\ Len(questions_asked') = Len(questions_asked) + 1
             /\ SubSeq(questions_asked', 1, Len(questions_asked)) = questions_asked
       /\ IndexedByPosition(questions_asked')]_vars

\* two overlapping asks: the one started second has appended the second
\* record while the one started first still waits for the question bank
QuestionsAppendOnlyWitness ==
    /\ Len(questions_asked) = 2
    /\ calls[1].pc = "a_next"
    /\ calls[2].ret = "prompt"

\* C27: the evaluation message of an accepted response carries the position of
\* that response in responses_received, and is_early_interview is true exactly
\* for the responses at positions 0 and 1
EvaluationCarriesOwnIndex ==
    [][\A s \in Slots :
        /\ (calls[s].pc = "e_eval" /\ calls'[s].pc = "e_feedback") =>
                (IsEarlyInterview <=> calls[s].idx < 2)
        /\ (calls[s].pc = "e_feedback" /\ calls'[s].ret = "feedback") =>
                (EvaluationResponseIndex = calls[s].idx)]_vars

\* C28: while no response has been accepted last_activity is unset and no tick
\* of the monitor issues the inactivity request, however long the session has
\* been idle; the monitor then leaves its sleep only for the time-limit
\* request, when more than the duration plus five minutes have passed
InactivityNeedsResponse ==
    [][/\ (responses_received = <<>>) => (last_activity = None)
       /\ (last_activity = None /\ pc = "sleep") =>
            /\ pc' \in {"sleep", "timeout_reply"}
            /\ (pc' = "timeout_reply") =>
                    (now - Get(start_time) > config.duration + TIMEOUT_BUFFER)]_vars

\* no response in 36 minutes: the ticks at minutes 10 and 21 did nothing and
\* the tick at minute 36 issues the time-limit request
InactivityNeedsResponseWitness ==
    /\ responses_received = <<>>
    /\ last_activity = None
    /\ now = 36
    /\ pc = "timeout_reply"

\* the responses of r are to questions of strictly increasing index
OnePerQuestion(r) ==
    \A i, j \in 1..Len(r) : (i < j) => (r[i].question_index < r[j].question_index)

\* C29: a response_submitted message appends a record only if the session is
\* waiting for a response and the text is not empty (nor blank); the step
\* that appends it clears the waiting flag, before the evaluator is called;
\* so no two messages append a record for the same question
MessageResponseOncePerQuestion ==
    [][/\ \A s \in Slots, text \in Texts :
            (HandleDataMessage(s, [type |-> "response_submitted", text |-> text])
                /\ responses_received' # responses_received) =>
                    /\ waiting_for_response
                    /\ Strip(text) # ""
                    /\ ~waiting_for_response'
                    /\ calls'[s].pc = "e_eval"
                    /\ responses_received' = Append(responses_received, ResponseRecord)
       /\ OnePerQuestion(responses_received')]_vars

\* two questions asked and answered by messages; the second response is being
\* evaluated, and a further message finds the session not waiting
MessageResponseWitness ==
    /\ Len(questions_asked) = 2
    /\ Len(responses_received) = 2
    /\ ~waiting_for_response
    /\ Pending("e_eval") = 1
    /\ ~ENABLED (\E s \in Slots :
            HandleDataMessage(s, [type |-> "response_submitted", text |-> "answer"]))

\* C30: the coroutine that handles a request_hint message sends a hint message,
\* a type the client renders
HintRequestIsAnswered ==
    [][\A s \in Slots, text \in Texts :
        HandleDataMessage(s, [type |-> "request_hint", text |-> text]) =>
            /\ SentMessage(calls'[s]) = "hint"
            /\ SentMessage(calls'[s]) \in RenderedTypes]_vars

====
